---- MODULE Spec2Model ----
(***************************************************************************)
(* Model of backup/backup-to-s3.py: S3BackupManager.run_backup fans the    *)
(* candidate files out to a ThreadPoolExecutor; every task runs            *)
(* _upload_file (existence check, transfer, verification, optional local   *)
(* deletion) against one shared S3 client and one shared stats dict.       *)
(*                                                                         *)
(* A task is identified by its file.  Every blocking call of the pipeline  *)
(* is one step; a `stats[k] += n` is two steps (load, store) because the   *)
(* dict is shared by the pool threads and is not locked.  Calls that can   *)
(* raise do so by nondeterministic choice.  Another writer may put objects *)
(* into the bucket at any moment.                                          *)
(***************************************************************************)
EXTENDS Integers, Sequences, FiniteSets, TLC

\* ---------------------------------------------------------------- bounds
NumFiles == 2          \* files in the backup directory

\* config.max_workers (scaled down from the default 3): the largest pool
\* size a run is configured with
max_workers == 2
\* config.multipart_threshold (scaled down from 100 MB)
multipart_threshold == 2

\* config.day_delta (default of load_config)
day_delta == 3
\* config.backup_extensions (the extensions of the sample configuration)
backup_extensions == {".7z", ".gz", ".zip"}

Files == 1..NumFiles

\* ---------------------------------------------------------------- selection
\* Time is counted in days.  current_date of get_files_for_backup:
Now == day_delta + 2

\* what iterdir and stat() tell about a directory entry
Suffixes == {".zip", ".ZIP", ".tar"}
CTimes == {Now - day_delta - 1, Now - day_delta, Now, Now + 1}
Entries == [is_file : BOOLEAN, suffix : Suffixes, ctime : CTimes]

\* the directory the upload pipeline is run on: regular, accepted, recent
\* files, created one per day up to today
DefaultEntry(f) == [is_file |-> TRUE, suffix |-> ".zip", ctime |-> Now - (NumFiles - f)]

\* the orders iterdir may list the directory in
Listings == {s \in [1..NumFiles -> Files] : \A i, j \in 1..NumFiles : s[i] = s[j] => i = j}

\* (mutant) a file exactly day_delta days old is left out
InWindow_Strict(t) == t > Now - day_delta

\* line 276: create_date >= cutoff_date
InWindow(t) == t >= Now - day_delta

\* lines 273-276
Qualifies(e) == e.is_file /\ e.suffix \in backup_extensions /\ InWindow(e.ctime)

\* sorted(..., key=st_ctime): a stable sort, here by insertion
RECURSIVE InsertByCtime(_, _, _)
InsertByCtime(sorted, f, ents) ==
    IF sorted = <<>> THEN <<f>>
    ELSE IF ents[Head(sorted)].ctime <= ents[f].ctime
         THEN <<Head(sorted)>> \o InsertByCtime(Tail(sorted), f, ents)
         ELSE <<f>> \o sorted
RECURSIVE SortByCtime(_, _)
SortByCtime(fs, ents) ==
    IF fs = <<>> THEN <<>>
    ELSE InsertByCtime(SortByCtime(SubSeq(fs, 1, Len(fs) - 1), ents), fs[Len(fs)], ents)

\* get_files_for_backup (lines 262-279)
get_files_for_backup(exists, present, ents, order) ==
    IF ~exists THEN <<>>
    ELSE LET Wanted(f) == present[f] /\ Qualifies(ents[f])
         IN  SortByCtime(SelectSeq(order, Wanted), ents)

Range(seq) == {seq[i] : i \in 1..Len(seq)}

\* ---------------------------------------------------------------- data
None == [content |-> -1, size |-> -1, etag |-> <<>>]

\* local file f: its bytes (an id) and st_size; sizes straddle the threshold
LocalContent(f) == f
FileSize(f) == multipart_threshold - (f % 2)

Corrupted(c) == c + 128

Hex == <<"0","1","2","3","4","5","6","7","8","9","a","b","c","d","e","f">>

\* hashlib md5 hexdigest, abstracted to two hex digits, injective on 0..255
calculate_file_hash(c) == <<Hex[((c \div 16) % 16) + 1], Hex[(c % 16) + 1]>>

\* ETag the store reports: quoted MD5 for a simple put, quoted
\* "<digest of part digests>-<parts>" for a multipart upload
ETagOf(c, multipart) ==
    IF multipart
    THEN <<"\"">> \o calculate_file_hash((c + 64) % 256) \o <<"-", "1">> \o <<"\"">>
    ELSE <<"\"">> \o calculate_file_hash(c) \o <<"\"">>

StoredObject(c, size, multipart) ==
    [content |-> c, size |-> size, etag |-> ETagOf(c, multipart)]

\* the object another writer of the bucket puts: content 0, which no local
\* file has, one byte, a simple put
ForeignObject == StoredObject(0, 1, FALSE)

\* upload_file switches to a multipart upload from the threshold on
IsMultipart(f) == FileSize(f) >= multipart_threshold

\* str.strip(ch): drop every leading and trailing ch
RECURSIVE LStrip(_, _)
LStrip(s, ch) == IF s # <<>> /\ Head(s) = ch THEN LStrip(Tail(s), ch) ELSE s
RECURSIVE RStrip(_, _)
RStrip(s, ch) ==
    IF s # <<>> /\ s[Len(s)] = ch THEN RStrip(SubSeq(s, 1, Len(s) - 1), ch) ELSE s
\* (mutant) only the leading quote is stripped
StripLeft(s, ch) == LStrip(s, ch)

Strip(s, ch) == RStrip(LStrip(s, ch), ch)

\* '-' in s3_etag
Contains(s, ch) == \E i \in 1..Len(s) : s[i] = ch

\* the decision rule of _verify_upload once both reads succeeded
VerifyDecision(f, obj) ==
    LET s3_etag == Strip(obj.etag, "\"")
    IN  IF Contains(s3_etag, "-")
        THEN FileSize(f) = obj.size
        ELSE calculate_file_hash(LocalContent(f)) = s3_etag

\* ---------------------------------------------------------------- state
VARIABLES
    dry_run,              \* run_backup(dry_run)
    delete_after_upload,  \* config.delete_after_upload
    local,                \* local[f]: the file is in the backup directory
    remote,               \* remote[k]: object under key k, or None
    stats,                \* self.stats
    pc,                   \* pc[f]: position of the task of file f
    tmp,                  \* tmp[f]: value loaded by a pending `+=`
    hist,                 \* hist[f]: what each call of the task returned, and
                          \* the counters the task has stored to
    result,               \* result[f]: how the future of f completed
    caught,               \* futures whose exception run_backup swallowed
    phase,                \* "running" | "finished"
    runResult,            \* value returned by run_backup
    clobbered,            \* keys whose foreign object a task replaced or removed
    files,                \* candidates of the current run
    rerun,                \* the script has been started a second time
    prev,                 \* files the first run uploaded and verified
    workers,              \* config.max_workers of this run
    dirExists,            \* config.backup_dir.exists()
    entries,              \* entries[f]: kind, suffix and ctime of entry f
    listing,              \* the order iterdir yields the entries in
    selected              \* the list get_files_for_backup returned

\* what a run is given and what it found: only the selection writes it
scan == <<workers, dirExists, entries, listing, selected>>

vars == <<dry_run, delete_after_upload, local, remote, stats, pc, tmp, hist,
          result, caught, phase, runResult, clobbered, files,
          rerun, prev, scan>>

ZeroStats == [uploaded |-> 0, skipped |-> 0, failed |-> 0, deleted |-> 0,
              total_bytes |-> 0]

NoHist == [head |-> "none", upload |-> "none", verify |-> "none",
           delete |-> "none", unlink |-> "none", counted |-> {}]

\* a new S3BackupManager, run_backup not yet past line 292
Fresh ==
    /\ local = [f \in Files |-> dirExists]
    /\ remote = [f \in Files |-> None]
    /\ stats = ZeroStats
    /\ pc = [f \in Files |-> "absent"]
    /\ tmp = [f \in Files |-> 0]
    /\ hist = [f \in Files |-> NoHist]
    /\ result = [f \in Files |-> "none"]
    /\ caught = {}
    /\ phase = "selecting"
    /\ runResult = "none"
    /\ clobbered = {}
    /\ files = {}
    /\ rerun = FALSE
    /\ prev = {}
    /\ selected = <<>>

Init ==
    /\ dry_run \in BOOLEAN
    /\ delete_after_upload \in BOOLEAN
    /\ workers \in 1..max_workers
    /\ dirExists \in BOOLEAN
    /\ entries = [f \in Files |-> DefaultEntry(f)]
    /\ listing = [i \in 1..NumFiles |-> i]
    /\ Fresh

\* the inputs of get_files_for_backup alone: any kinds, suffixes and ages,
\* listed in any order
InitSelect ==
    /\ dry_run = FALSE
    /\ delete_after_upload = FALSE
    /\ workers = max_workers
    /\ dirExists \in BOOLEAN
    /\ entries \in [Files -> Entries]
    /\ listing \in Listings
    /\ Fresh

\* ---------------------------------------------------------------- helpers
Running(f) == pc[f] \notin {"queued", "done", "absent"}
InFlight == Cardinality({f \in Files : Running(f)})

\* place of f in the list that was submitted to the pool
PosOf(f) == CHOOSE i \in 1..Len(selected) : selected[i] = f

\* (mutant) the pool starts a thread for every work item
PoolHasIdleThread_Unbounded == TRUE

\* ThreadPoolExecutor(max_workers=...): a work item waits for a free thread
PoolHasIdleThread == InFlight < workers

\* (mutant) no candidates is reported as a failed run
RunVerdict_EmptyFails(fs, failed) == fs # {} /\ failed = 0

\* lines 293-295 and 325
RunVerdict(fs, failed) == IF fs = {} THEN TRUE ELSE failed = 0

Goto(f, to) == pc' = [pc EXCEPT ![f] = to]
Note(f, field, v) == hist' = [hist EXCEPT ![f][field] = v]

\* the task function returns or raises: the future completes
Complete(f, r) ==
    /\ pc' = [pc EXCEPT ![f] = "done"]
    /\ result' = [result EXCEPT ![f] = r]

\* (mutant) the existence check never finds the key
file_exists_never(obj) == FALSE

\* _file_exists_in_s3 when head_object answers: (exists, etag)
file_exists_in_s3(obj) == obj # None

\* (mutant) every ClientError of head_object is taken for "not found"
ExistsOnError_NotFound == "upload"

\* lines 156-157 and 253-256: any other ClientError is re-raised to the
\* handler of _upload_file, which counts a failure
ExistsOnError == "ld_failed"

\* (mutant) the dry-run test is missing
AfterExists_NoDryRun(exists, dry) == IF exists THEN "ld_skipped" ELSE "upload"

\* lines 201-208: skip when present, stop in a dry run, else transfer
AfterExists(exists, dry) ==
    IF exists THEN "ld_skipped" ELSE IF dry THEN "return" ELSE "upload"

\* (mutant) the result of the verification is ignored
AfterVerify_Ignored(verified) == "ld_uploaded"

\* lines 235-242: a failed verification removes the remote object
AfterVerify(verified) == IF verified THEN "ld_uploaded" ELSE "delete"

\* lines 246-251
AfterCounted(del) == IF del THEN "unlink" ELSE "return"

LoadPcs == {"ld_skipped", "ld_uploaded", "ld_bytes", "ld_deleted", "ld_failed"}
StorePcs == {"st_skipped", "st_uploaded", "st_bytes", "st_deleted", "st_failed"}
CounterOf ==
    [ld_skipped |-> "skipped", ld_uploaded |-> "uploaded", ld_bytes |-> "total_bytes",
     ld_deleted |-> "deleted", ld_failed |-> "failed",
     st_skipped |-> "skipped", st_uploaded |-> "uploaded", st_bytes |-> "total_bytes",
     st_deleted |-> "deleted", st_failed |-> "failed"]
StoreOf ==
    [ld_skipped |-> "st_skipped", ld_uploaded |-> "st_uploaded", ld_bytes |-> "st_bytes",
     ld_deleted |-> "st_deleted", ld_failed |-> "st_failed"]
Increment(f, at) == IF at = "st_bytes" THEN FileSize(f) ELSE 1

\* ---------------------------------------------------------------- selection step
\* line 292, and lines 302-306 when the list is not empty: one future per
\* selected file, submitted in list order
Select ==
    /\ phase = "selecting"
    /\ selected' = get_files_for_backup(dirExists, local, entries, listing)
    /\ files' = Range(selected')
    /\ pc' = [f \in Files |-> IF f \in files' THEN "queued" ELSE "absent"]
    /\ phase' = "running"
    /\ UNCHANGED <<workers, dirExists, entries, listing, dry_run,
                   delete_after_upload, local, remote, stats, tmp, hist, result,
                   caught, runResult, clobbered, rerun, prev>>

\* ---------------------------------------------------------------- worker
\* A pool thread takes the next work item and runs lines 195-196.
\* file_path.stat() is outside the try block: an OSError leaves the task.
Start(f) ==
    /\ phase = "running"
    /\ pc[f] = "queued"
    /\ \A g \in files : PosOf(g) < PosOf(f) => pc[g] # "queued"
    /\ PoolHasIdleThread
    /\ \E statFails \in BOOLEAN :
         IF statFails
         THEN Complete(f, "raised")
         ELSE Goto(f, "head") /\ UNCHANGED result
    /\ UNCHANGED <<scan, dry_run, delete_after_upload, local, remote, stats, tmp, hist,
                   caught, phase, runResult, clobbered, files,
                   rerun, prev>>

\* lines 198-208: _file_exists_in_s3 and the two early exits
Exists(f) ==
    /\ pc[f] = "head"
    /\ \E headFails \in BOOLEAN :
         IF headFails
         THEN /\ Note(f, "head", "error")
              /\ Goto(f, ExistsOnError)
              /\ UNCHANGED result
         ELSE LET exists == file_exists_in_s3(remote[f])
                  to == AfterExists(exists, dry_run)
              IN  /\ Note(f, "head", IF exists THEN "exists" ELSE "absent")
                  /\ IF to = "return"
                     THEN Complete(f, "False")
                     ELSE Goto(f, to) /\ UNCHANGED result
    /\ UNCHANGED <<scan, dry_run, delete_after_upload, local, remote, stats, tmp,
                   caught, phase, runResult, clobbered, files,
                   rerun, prev>>

\* lines 222-232: upload_file; the object that arrives may differ from the file
Upload(f) ==
    /\ pc[f] = "upload"
    /\ \E outcome \in {"ok", "corrupt", "short", "error"} :
         IF outcome = "error"
         THEN /\ Note(f, "upload", "error")
              /\ Goto(f, "ld_failed")
              /\ UNCHANGED <<remote, clobbered>>
         ELSE LET c == IF outcome = "ok" THEN LocalContent(f)
                       ELSE Corrupted(LocalContent(f))
                  n == IF outcome = "short" THEN FileSize(f) - 1 ELSE FileSize(f)
              IN  /\ remote' = [remote EXCEPT ![f] = StoredObject(c, n, IsMultipart(f))]
                  /\ clobbered' = IF remote[f] # None THEN clobbered \cup {f}
                                  ELSE clobbered
                  /\ Note(f, "upload", "done")
                  /\ Goto(f, "verify")
    /\ UNCHANGED <<scan, dry_run, delete_after_upload, local, stats, tmp, result,
                   caught, phase, runResult, files, rerun, prev>>

\* _verify_upload (lines 159-188).  Every exception inside it is swallowed
\* by `except Exception` and turned into False; the one modelled is the
\* ClientError of head_object (an OSError of the hash or of stat() takes the
\* same branch).
verify_upload(f, headFails) ==
    IF headFails \/ remote[f] = None THEN "head_error"
    ELSE IF VerifyDecision(f, remote[f]) THEN "true" ELSE "false"

\* line 235: the verification and the branch on its result
Verify(f) ==
    /\ pc[f] = "verify"
    /\ \E headFails \in BOOLEAN :
         LET v == verify_upload(f, headFails)
         IN  /\ Note(f, "verify", v)
             /\ Goto(f, AfterVerify(v = "true"))
    /\ UNCHANGED <<scan, dry_run, delete_after_upload, local, remote, stats, tmp, result,
                   caught, phase, runResult, clobbered, files,
                   rerun, prev>>

\* lines 236-239: delete_object, then return False
DeleteObject(f) ==
    /\ pc[f] = "delete"
    /\ \E deleteFails \in BOOLEAN :
         IF deleteFails
         THEN /\ Note(f, "delete", "error")
              /\ Goto(f, "ld_failed")
              /\ UNCHANGED <<remote, clobbered, result>>
         ELSE /\ remote' = [remote EXCEPT ![f] = None]
              /\ clobbered' = IF remote[f] = ForeignObject
                              THEN clobbered \cup {f} ELSE clobbered
              /\ Note(f, "delete", "ok")
              /\ Complete(f, "False")
    /\ UNCHANGED <<scan, dry_run, delete_after_upload, local, stats, tmp,
                   caught, phase, runResult, files, rerun, prev>>

\* the load half of self.stats[k] += n
StatsLoad(f) ==
    /\ pc[f] \in LoadPcs
    /\ tmp' = [tmp EXCEPT ![f] = stats[CounterOf[pc[f]]]]
    /\ Goto(f, StoreOf[pc[f]])
    /\ UNCHANGED <<scan, dry_run, delete_after_upload, local, remote, stats, hist, result,
                   caught, phase, runResult, clobbered, files,
                   rerun, prev>>

\* the store half of self.stats[k] += n, and the statement after it
StatsStore(f) ==
    /\ pc[f] \in StorePcs
    /\ stats' = [stats EXCEPT ![CounterOf[pc[f]]] = tmp[f] + Increment(f, pc[f])]
    /\ tmp' = [tmp EXCEPT ![f] = 0]
    /\ Note(f, "counted", hist[f].counted \cup {CounterOf[pc[f]]})
    /\ CASE pc[f] = "st_skipped" -> Complete(f, "False")
         [] pc[f] = "st_failed" -> Complete(f, "False")
         [] pc[f] = "st_deleted" -> Complete(f, "True")
         [] pc[f] = "st_uploaded" -> Goto(f, "ld_bytes") /\ UNCHANGED result
         [] pc[f] = "st_bytes" ->
              IF AfterCounted(delete_after_upload) = "return"
              THEN Complete(f, "True")
              ELSE Goto(f, "unlink") /\ UNCHANGED result
    /\ UNCHANGED <<scan, dry_run, delete_after_upload, local, remote,
                   caught, phase, runResult, clobbered, files,
                   rerun, prev>>

\* line 247: file_path.unlink()
Unlink(f) ==
    /\ pc[f] = "unlink"
    /\ \E unlinkFails \in BOOLEAN :
         IF unlinkFails
         THEN /\ Note(f, "unlink", "error")
              /\ Goto(f, "ld_failed")
              /\ UNCHANGED local
         ELSE /\ local' = [local EXCEPT ![f] = FALSE]
              /\ Note(f, "unlink", "ok")
              /\ Goto(f, "ld_deleted")
    /\ UNCHANGED <<scan, dry_run, delete_after_upload, remote, stats, tmp, result,
                   caught, phase, runResult, clobbered, files,
                   rerun, prev>>

\* ---------------------------------------------------------------- orchestrator
\* lines 293-295 and 302-325.  The as_completed loop reads every future's
\* result() inside try/except; the except branch only logs, so the loop
\* changes nothing but the set of exceptions it has swallowed.  Leaving the
\* `with` block waits for every task; then the verdict is read from stats.
RunReturn ==
    /\ phase = "running"
    /\ \A f \in files : pc[f] = "done"
    /\ caught' = {f \in files : result[f] = "raised"}
    /\ phase' = "finished"
    /\ runResult' = RunVerdict(files, stats.failed)
    /\ UNCHANGED <<scan, dry_run, delete_after_upload, local, remote, stats, pc, tmp, hist,
                   result, clobbered, files, rerun, prev>>

\* ---------------------------------------------------------------- environment
\* Somebody else writes an object under key k.  Only a put that a step of
\* the run can still observe is a step of the model: the task of k has a
\* call on the key ahead of it, and the key does not hold that object already.
RemoteCallAhead == {"queued", "head", "upload", "verify", "delete"}

ExternalPut(k) ==
    /\ phase = "running"
    /\ k \in files
    /\ pc[k] \in RemoteCallAhead
    /\ remote[k] # ForeignObject
    /\ remote' = [remote EXCEPT ![k] = ForeignObject]
    /\ UNCHANGED <<scan, dry_run, delete_after_upload, local, stats, pc, tmp, hist,
                   result, caught, phase, runResult, clobbered, files,
                   rerun, prev>>

\* main() again, with the same configuration, over the same directory and
\* bucket: a new S3BackupManager, so new statistics.  The second start that
\* is modelled is the one after a run that uploaded and verified something
\* and kept the local files.
Rerun ==
    /\ phase = "finished"
    /\ ~rerun
    /\ ~dry_run /\ ~delete_after_upload
    /\ \E f \in files : hist[f].upload = "done" /\ hist[f].verify = "true"
    /\ rerun' = TRUE
    /\ prev' = {f \in files : hist[f].upload = "done" /\ hist[f].verify = "true"}
    /\ clobbered' = {}
    /\ selected' = get_files_for_backup(dirExists, local, entries, listing)
    /\ files' = Range(selected')
    /\ stats' = ZeroStats
    /\ pc' = [f \in Files |-> IF f \in files' THEN "queued" ELSE "absent"]
    /\ tmp' = [f \in Files |-> 0]
    /\ hist' = [f \in Files |-> NoHist]
    /\ result' = [f \in Files |-> "none"]
    /\ caught' = {}
    /\ phase' = "running"
    /\ runResult' = "none"
    /\ UNCHANGED <<workers, dirExists, entries, listing, dry_run,
                   delete_after_upload, local, remote>>

Next ==
    \/ Select
    \/ \E f \in Files : Start(f)
    \/ \E f \in Files : Exists(f)
    \/ \E f \in Files : Upload(f)
    \/ \E f \in Files : Verify(f)
    \/ \E f \in Files : DeleteObject(f)
    \/ \E f \in Files : StatsLoad(f)
    \/ \E f \in Files : StatsStore(f)
    \/ \E f \in Files : Unlink(f)
    \/ RunReturn
    \/ \E k \in Files : ExternalPut(k)

Spec == Init /\ [][Next]_vars

\* the same, with the script started a second time after the first run
NextRerun == Next \/ Rerun
SpecRerun == Init /\ [][NextRerun]_vars

\* get_files_for_backup applied to every directory of InitSelect
NextSelect == Select
SpecSelect == InitSelect /\ [][NextSelect]_vars

\* The steps of the program itself: the pool threads and the main thread
\* keep running, and every call returns or raises.  The other writers of the
\* bucket take no part in dispatch or completion and are left out of SpecLive.
Program ==
    \/ Select
    \/ \E f \in Files :
          \/ Start(f) \/ Exists(f) \/ Upload(f) \/ Verify(f) \/ DeleteObject(f)
          \/ StatsLoad(f) \/ StatsStore(f) \/ Unlink(f)
    \/ RunReturn
SpecLive == Init /\ [][Program]_vars /\ WF_vars(Program)

\* ================================================================ claims
VerifyReturnedFalse(f) == hist[f].verify \in {"false", "head_error"}

\* C1: a task removes the local file only after its upload completed and
\* _verify_upload returned True for it; a task that ended with a failed
\* verification, or with a failure before it, leaves the local file in place.
C1_UnlinkOnlyAfterVerified ==
    \A f \in Files :
        /\ (pc[f] = "unlink" \/ hist[f].unlink # "none" \/ (dirExists /\ ~local[f]))
              => hist[f].upload = "done" /\ hist[f].verify = "true"
        /\ (pc[f] = "done" /\ hist[f].verify # "true") => local[f]

C1_Witness ==
    \E f, g \in Files :
        /\ pc[f] = "done" /\ ~local[f] /\ hist[f].unlink = "ok"
        /\ pc[g] = "done" /\ hist[g].verify = "false" /\ local[g]

\* C2: a key that is present in the bucket when a task's upload_file or
\* delete_object runs is never replaced or removed by the task, whatever the
\* other writers of the bucket do.
C2_NeverOverwritesRemote == clobbered = {}

\* C3: when the run has finished and _verify_upload returned False for some
\* file, the failed counter is at least 1 and run_backup returned False.
C3_VerifyFailureCounted ==
    (phase = "finished" /\ \E f \in files : VerifyReturnedFalse(f))
        => stats.failed >= 1 /\ runResult = FALSE

\* C4: when an exception escaped a task, run_backup has caught it, every
\* other task ran to completion, and the escape is counted as a failure, so
\* that run_backup returns False.
C4_EscapedExceptionCounted ==
    (phase = "finished" /\ \E f \in files : result[f] = "raised")
        => /\ \A g \in files : pc[g] = "done"
           /\ {f \in files : result[f] = "raised"} \subseteq caught
           /\ stats.failed >= 1
           /\ runResult = FALSE

\* the files of C5: the transfer raised, or the file was uploaded and verified
\* (and nothing else went wrong); none was present remotely beforehand
TransferFailed(f) ==
    /\ result[f] = "False" /\ hist[f].head = "absent" /\ hist[f].upload = "error"
UploadedAndVerified(f) ==
    /\ result[f] = "True" /\ hist[f].head = "absent" /\ hist[f].upload = "done"
    /\ hist[f].verify = "true" /\ hist[f].unlink # "error"
    /\ f \notin clobbered

\* C5: in a finished run whose k files failed their transfer and whose other
\* m files were uploaded and verified, uploaded = m, failed = k and the run
\* returned False exactly when k > 0.
C5_PartialFailureCounts ==
    LET k == Cardinality({f \in files : TransferFailed(f)})
        m == Cardinality({f \in files : UploadedAndVerified(f)})
    IN  (phase = "finished" /\ k + m = Cardinality(files))
            => /\ stats.uploaded = m
               /\ stats.failed = k
               /\ runResult = (k = 0)

\* C6: in a dry run no task ever reaches upload_file, delete_object or unlink:
\* every local file stays, and the bucket holds nothing a task has written.
C6_DryRunChangesNothing ==
    dry_run =>
        \A f \in Files :
            /\ pc[f] \notin {"upload", "verify", "delete", "unlink"}
            /\ hist[f].upload = "none" /\ hist[f].delete = "none"
            /\ hist[f].unlink = "none"
            /\ local[f] = dirExists
            /\ remote[f] \in {None, ForeignObject}

C6_Witness ==
    /\ dry_run /\ phase = "finished"
    /\ \E f, g \in files : hist[f].head = "absent" /\ hist[g].head = "exists"

\* C7: no task ever stores to a statistics counter (only the orchestrator
\* does), so no two stores to the statistics are ever pending at once.
C7_WorkersNeverWriteStats ==
    /\ \A f \in Files : hist[f].counted = {} /\ pc[f] \notin StorePcs
    /\ Cardinality({f \in Files : pc[f] \in StorePcs}) <= 1

\* C8: no task ever completes by raising: every future holds a return value.
C8_UploadFileNeverRaises == \A f \in Files : result[f] # "raised"

\* C9: in a second run, a file that the first run uploaded and verified and
\* that is still local is never uploaded and never deleted remotely or
\* locally; once its existence check has answered, it is skipped and counted
\* neither as uploaded nor as failed.
C9_RerunSkips ==
    rerun =>
        \A f \in prev :
            /\ f \in files /\ local[f]
            /\ remote[f] # None
            /\ pc[f] \notin {"upload", "verify", "delete", "unlink"}
            /\ hist[f].upload = "none" /\ hist[f].delete = "none"
            /\ hist[f].unlink = "none"
            /\ hist[f].head \in {"none", "exists", "error"}
            /\ (pc[f] = "done" /\ hist[f].head = "exists")
                  => result[f] = "False" /\ hist[f].counted = {"skipped"}

C9_Witness ==
    /\ rerun /\ phase = "finished"
    /\ \E f \in prev : hist[f].head = "exists" /\ hist[f].counted = {"skipped"}
    /\ stats.failed = 0 /\ runResult = TRUE

\* C10: a transport error of head_object inside _verify_upload is not
\* reported as "not verified": the task never goes on to delete_object after it.
C10_HeadErrorNeverDeletes ==
    \A f \in Files :
        hist[f].verify = "head_error" => pc[f] # "delete" /\ hist[f].delete = "none"

\* C11: the delete_object issued after a failed verification is best-effort:
\* two tasks whose verification failed, one whose delete succeeded and one
\* whose delete raised, have returned the same value and stored to the same
\* counters.
C11_DeleteFailureSameOutcome ==
    \A f, g \in Files :
        (/\ pc[f] = "done" /\ pc[g] = "done"
         /\ VerifyReturnedFalse(f) /\ VerifyReturnedFalse(g)
         /\ hist[f].delete = "ok" /\ hist[g].delete = "error")
            => result[f] = result[g] /\ hist[f].counted = hist[g].counted

\* what C14 expects of a metadata answer, read off the raw ETag: a composite
\* ETag compares sizes, any other ETag must be the quoted digest of the file
ExpectedVerdict(f, obj) ==
    IF Contains(obj.etag, "-")
    THEN FileSize(f) = obj.size
    ELSE obj.etag = <<"\"">> \o calculate_file_hash(LocalContent(f)) \o <<"\"">>

\* C14: whenever _verify_upload gets the metadata, it returns True exactly
\* when, for an ETag containing '-', the sizes are equal (whatever the
\* content), and otherwise when the local MD5 equals the unquoted ETag.
C14_VerifyDecisionRule ==
    [][\A f \in Files :
          (pc[f] = "verify" /\ hist'[f].verify \in {"true", "false"})
             => ((hist'[f].verify = "true") <=> ExpectedVerdict(f, remote[f]))]_vars

C14_Witness ==
    \E f, g \in Files :
        /\ hist[f].verify = "true" /\ Contains(remote[f].etag, "-")
        /\ remote[f].content # LocalContent(f)
        /\ pc[g] = "delete" /\ hist[g].verify = "false"
        /\ ~Contains(remote[g].etag, "-")
        /\ remote[g].content = Corrupted(LocalContent(g))

\* C15: a task whose existence check failed with a store error other than
\* "not found" never uploads, never deletes remotely or locally, stores to
\* the failed counter once and to no other, and makes the run return False;
\* a task whose check answered "not found" and that met no error afterwards
\* never stores to the failed counter.
C15_ExistsErrorCountedOnce ==
    /\ \A f \in Files :
          /\ hist[f].head = "error" =>
                /\ pc[f] \in {"ld_failed", "st_failed", "done"}
                /\ hist[f].upload = "none" /\ hist[f].delete = "none"
                /\ hist[f].unlink = "none" /\ local[f]
                /\ hist[f].counted \subseteq {"failed"}
                /\ pc[f] = "done" => hist[f].counted = {"failed"} /\ result[f] = "False"
          /\ (/\ hist[f].head = "absent" /\ hist[f].upload # "error"
              /\ hist[f].delete # "error" /\ hist[f].unlink # "error")
                => "failed" \notin hist[f].counted /\ pc[f] \notin {"ld_failed", "st_failed"}
    /\ (phase = "finished" /\ \E f \in files : hist[f].head = "error")
          => stats.failed >= 1 /\ runResult = FALSE

C15_Witness ==
    /\ phase = "finished" /\ runResult = FALSE
    /\ \E f, g \in files :
          /\ hist[f].head = "error" /\ hist[f].counted = {"failed"}
          /\ hist[g].head = "absent" /\ hist[g].upload = "done"
          /\ result[g] = "True"

RECURSIVE SumSizes(_)
SumSizes(S) ==
    IF S = {} THEN 0
    ELSE LET f == CHOOSE x \in S : TRUE IN FileSize(f) + SumSizes(S \ {f})

Counted(c) == {f \in files : c \in hist[f].counted}

\* C17: when the run has finished, every counter equals the number of tasks
\* that incremented it, and total_bytes the sum of the sizes of the files
\* counted as uploaded.
C17_NoLostUpdate ==
    phase = "finished" =>
        /\ stats.uploaded = Cardinality(Counted("uploaded"))
        /\ stats.skipped = Cardinality(Counted("skipped"))
        /\ stats.failed = Cardinality(Counted("failed"))
        /\ stats.deleted = Cardinality(Counted("deleted"))
        /\ stats.total_bytes = SumSizes(Counted("total_bytes"))

\* C18: every file is counted in at most one of uploaded, skipped and
\* failed, so that at the end of a run their sum is at most the number of
\* candidates.
C18_OneCounterPerFile ==
    /\ \A f \in Files :
          Cardinality(hist[f].counted \cap {"uploaded", "skipped", "failed"}) <= 1
    /\ phase = "finished" =>
          stats.uploaded + stats.skipped + stats.failed <= Cardinality(files)

\* the selected list holds exactly the files of S, once each, oldest first
ListsExactly(S) ==
    /\ Range(selected) = S
    /\ Len(selected) = Cardinality(S)
    /\ \A i, j \in 1..Len(selected) :
          i < j => entries[selected[i]].ctime <= entries[selected[j]].ctime

Accepted(f) ==
    dirExists /\ local[f] /\ entries[f].is_file
        /\ entries[f].suffix \in backup_extensions

\* C12 as claimed: get_files_for_backup returns exactly the regular files
\* with an accepted suffix whose creation time t satisfies
\* now - N days <= t <= now, ordered by ascending creation time.
C12_SelectsWindowUpToNow ==
    phase = "running" =>
        ListsExactly({f \in Files : /\ Accepted(f)
                                    /\ Now - day_delta <= entries[f].ctime
                                    /\ entries[f].ctime <= Now})

\* C12 as amended: get_files_for_backup returns exactly the regular files
\* with an accepted suffix whose creation time t satisfies now - N days <= t
\* (exactly N days ago included, N+1 days ago excluded, later than now
\* included), ordered by ascending creation time.
C12_SelectsNotOlderThanWindow ==
    phase = "running" =>
        ListsExactly({f \in Files : Accepted(f) /\ Now - day_delta <= entries[f].ctime})

C12_Witness ==
    /\ phase = "running"
    /\ \E f, g \in Files :
          /\ entries[f].ctime = Now - day_delta
          /\ entries[g].ctime = Now + 1
          /\ listing = <<g, f>>
          /\ selected = <<f, g>>

\* C13: when the backup directory does not exist, the candidate list is
\* empty, no task ever runs, nothing is written remotely or locally, every
\* counter stays 0 and run_backup returns True.
C13_MissingDirectoryIsSuccess ==
    (~dirExists /\ phase # "selecting") =>
        /\ selected = <<>> /\ files = {}
        /\ \A f \in Files :
              pc[f] = "absent" /\ hist[f] = NoHist /\ remote[f] = None /\ ~local[f]
        /\ stats = ZeroStats
        /\ phase = "finished" => runResult = TRUE

C13_Witness == ~dirExists /\ phase = "finished" /\ runResult = TRUE /\ stats = ZeroStats

\* C16: a task is queued once, for a candidate only; at most max_workers
\* tasks are in progress at any moment; run_backup returns only when every
\* task has completed; and, every call returning or raising, it does return.
C16_BoundedPoolRunsToCompletion ==
    /\ [](/\ InFlight <= workers
          /\ \A f \in Files : f \notin files => pc[f] = "absent"
          /\ phase = "finished" => \A f \in files : pc[f] = "done" /\ result[f] # "none")
    /\ [][\A f \in Files : pc'[f] = "queued" => pc[f] \in {"queued", "absent"}]_vars
    /\ <>(phase = "finished")

C16_Witness ==
    /\ workers < Cardinality(files)
    /\ InFlight = workers
    /\ \E f \in files : pc[f] = "queued"

====
